---------------------------- MODULE Spec2Model ----------------------------
(***************************************************************************)
(* Model of python/pdf_utilities/extract_page_range.py:                    *)
(*   parse_range, extract_page_range, process_many, run_interactive.       *)
(*                                                                         *)
(* Text (range strings, file names, messages, printed lines) is a sequence *)
(* of one-character strings; the literal text of a format string is kept   *)
(* as one element.  A path is a sequence of components, each a text.  A    *)
(* PDF document is the sequence of its pages.                              *)
(***************************************************************************)
EXTENDS Integers, Sequences, FiniteSets, TLC

(***************************************************************************)
(* Bounds of the model.                                                    *)
(***************************************************************************)
MaxLen == 4      \* longest range string handed to parse_range directly
MaxBatch == 3    \* most sources in one batch
MaxPage == 4     \* largest start / end argument of a programmatic call

(***************************************************************************)
(* Text helpers: str.strip, str.split, int(), str(int).                    *)
(***************************************************************************)
Alphabet == {"0", "1", "2", "-", " ", "a", "+", "_"}

Whitespace == {" ", "\t", "\n"}

Digits == {"0", "1", "2", "3", "4", "5", "6", "7", "8", "9"}

DigitVal(c) ==
    CASE c = "0" -> 0 [] c = "1" -> 1 [] c = "2" -> 2 [] c = "3" -> 3
      [] c = "4" -> 4 [] c = "5" -> 5 [] c = "6" -> 6 [] c = "7" -> 7
      [] c = "8" -> 8 [] c = "9" -> 9

DigitChar(d) ==
    CASE d = 0 -> "0" [] d = 1 -> "1" [] d = 2 -> "2" [] d = 3 -> "3"
      [] d = 4 -> "4" [] d = 5 -> "5" [] d = 6 -> "6" [] d = 7 -> "7"
      [] d = 8 -> "8" [] d = 9 -> "9"

RECURSIVE LStrip(_)
LStrip(s) ==
    IF s # <<>> /\ Head(s) \in Whitespace THEN LStrip(Tail(s)) ELSE s

RECURSIVE RStrip(_)
RStrip(s) ==
    IF s # <<>> /\ s[Len(s)] \in Whitespace
    THEN RStrip(SubSeq(s, 1, Len(s) - 1))
    ELSE s

\* str.strip()
Strip(s) == RStrip(LStrip(s))

\* str.split(sep): the parts between the occurrences of sep, in order.
RECURSIVE Split(_, _)
Split(s, sep) ==
    IF \E k \in 1..Len(s) : s[k] = sep
    THEN LET k == CHOOSE j \in 1..Len(s) :
                      s[j] = sep /\ \A m \in 1..(j - 1) : s[m] # sep
         IN  <<SubSeq(s, 1, k - 1)>> \o Split(SubSeq(s, k + 1, Len(s)), sep)
    ELSE <<s>>

\* The literals int() accepts: surrounding whitespace, an optional sign,
\* then digits, single underscores allowed between digits.
IntBody(s) ==
    LET t == Strip(s)
    IN  IF t # <<>> /\ Head(t) \in {"+", "-"} THEN Tail(t) ELSE t

IntOk(s) ==
    LET b == IntBody(s)
    IN  /\ b # <<>>
        /\ \A k \in 1..Len(b) : b[k] \in Digits \cup {"_"}
        /\ b[1] # "_"
        /\ b[Len(b)] # "_"
        /\ \A k \in 1..(Len(b) - 1) : ~(b[k] = "_" /\ b[k + 1] = "_")

RECURSIVE DecValue(_, _)
DecValue(b, acc) ==
    IF b = <<>> THEN acc
    ELSE IF Head(b) = "_" THEN DecValue(Tail(b), acc)
    ELSE DecValue(Tail(b), 10 * acc + DigitVal(Head(b)))

\* int(s), for s with IntOk(s)
IntOf(s) ==
    LET t == Strip(s)
        v == DecValue(IntBody(s), 0)
    IN  IF Head(t) = "-" THEN 0 - v ELSE v

\* str(n) of an integer
RECURSIVE NatStr(_)
NatStr(n) ==
    IF n < 10 THEN <<DigitChar(n)>>
    ELSE Append(NatStr(n \div 10), DigitChar(n % 10))

IntStr(n) == IF n < 0 THEN <<"-">> \o NatStr(0 - n) ELSE NatStr(n)

\* whether text t occurs in text m
Contains(m, t) ==
    \E o \in 0..(Len(m) - Len(t)) : SubSeq(m, o + 1, o + Len(t)) = t

(***************************************************************************)
(* Outcomes of a call: a returned value or a raised exception.             *)
(***************************************************************************)
None == "None"

Pending == [kind |-> "pending"]

Return(v) == [kind |-> "return", value |-> v]

Raise(exc, msg) == [kind |-> "raise", exc |-> exc, msg |-> msg]

(***************************************************************************)
(* parse_range                                                             *)
(***************************************************************************)
InvalidRangeMsg(range_str) ==
    <<"Invalid range format: '">> \o range_str \o <<"'. Use e.g. '10-25'.">>

\* the test without its lower bounds
RangeRejectedInvertedOnly(s, e) == s > e

\* the test of line 59
RangeRejected(s, e) == s < 1 \/ e < 1 \/ s > e

parse_range(range_str) ==
    LET parts == Split(range_str, "-")
    IN  IF Len(parts) # 2
        THEN Raise("ValueError", InvalidRangeMsg(range_str))
        ELSE IF ~(IntOk(parts[1]) /\ IntOk(parts[2]))
        THEN Raise("ValueError", InvalidRangeMsg(range_str))
        ELSE IF RangeRejected(IntOf(parts[1]), IntOf(parts[2]))
        THEN Raise("ValueError", InvalidRangeMsg(range_str))
        ELSE Return(<<IntOf(parts[1]), IntOf(parts[2])>>)


(***************************************************************************)
(* pathlib: Path.name, Path.parent, Path.stem, Path.suffix, the / operator *)
(***************************************************************************)
Name(path) == path[Len(path)]

Parent(path) == SubSeq(path, 1, Len(path) - 1)

Join(dir, name) == Append(dir, name)

\* str.rfind("."): the last index of a dot, 0 when there is none
\* (indices here are 1-based, so Python's i is RFindDot - 1).
RFindDot(name) ==
    IF \E k \in 1..Len(name) : name[k] = "."
    THEN CHOOSE k \in 1..Len(name) :
             name[k] = "." /\ \A m \in (k + 1)..Len(name) : name[m] # "."
    ELSE 0

\* a suffix exists when the last dot is neither the first nor the last character
HasSuffix(name) == 1 < RFindDot(name) /\ RFindDot(name) < Len(name)

Suffix(path) ==
    LET name == Name(path)
    IN  IF HasSuffix(name) THEN SubSeq(name, RFindDot(name), Len(name)) ELSE <<>>

Stem(path) ==
    LET name == Name(path)
    IN  IF HasSuffix(name) THEN SubSeq(name, 1, RFindDot(name) - 1) ELSE name

\* str(path)
RECURSIVE PathStr(_)
PathStr(path) ==
    IF Len(path) = 0 THEN <<".">>
    ELSE IF Len(path) = 1 THEN path[1]
    ELSE PathStr(Parent(path)) \o <<"/">> \o Name(path)

(***************************************************************************)
(* The filesystem: the set of directories and the PDF documents by path.   *)
(* A path outside DOMAIN files holds no readable PDF.                      *)
(***************************************************************************)
\* mkdir that creates the last directory only
MkdirLeafOnly(ds, dir) == ds \cup {dir}

\* Path.mkdir(parents=True, exist_ok=True)
Mkdir(ds, dir) == ds \cup {SubSeq(dir, 1, k) : k \in 1..Len(dir)}

\* open(path, "wb") followed by writer.write: creates or replaces the file
WriteFile(fs, path, doc) ==
    [p \in DOMAIN fs \cup {path} |-> IF p = path THEN doc ELSE fs[p]]

(***************************************************************************)
(* extract_page_range                                                      *)
(***************************************************************************)
Min(a, b) == IF a < b THEN a ELSE b

\* Python's seq[lo:hi] for a 0-based lo and hi, negative indices counted
\* from the end and both clamped to the sequence.
SliceIndex(k, n) == IF k < 0 THEN (IF k + n < 0 THEN 0 ELSE k + n) ELSE Min(k, n)

PySlice(seq, lo, hi) ==
    SubSeq(seq, SliceIndex(lo, Len(seq)) + 1, SliceIndex(hi, Len(seq)))

\* line 97
StartBeyondEnd(start, num_pages) == start > num_pages

\* line 105
ClampEnd(end, num_pages) == Min(end, num_pages)

\* the slice taken from index start instead of start - 1
SelectedPagesFromStart(reader_pages, start, end) ==
    PySlice(reader_pages, start, ClampEnd(end, Len(reader_pages)))

\* lines 105-111: the pages handed to the writer
SelectedPages(reader_pages, start, end) ==
    PySlice(reader_pages, start - 1, ClampEnd(end, Len(reader_pages)))

ExceedsMsg(pdf_path, start, end, num_pages) ==
    <<"Range ">> \o IntStr(start) \o <<"-">> \o IntStr(end)
        \o <<" exceeds PDF '">> \o Name(pdf_path) \o <<"' (">>
        \o IntStr(num_pages) \o <<" pages).">>

UnreadableMsg(pdf_path) == <<"No such file or not a PDF: '">> \o PathStr(pdf_path) \o <<"'">>

\* the call with the destination directory made before the bounds check
extract_page_range_mkdir_first(ds, fs, pdf_path, start, end, output_path) ==
    IF pdf_path \notin DOMAIN fs
    THEN [dirs |-> ds, files |-> fs,
          result |-> Raise("OSError", UnreadableMsg(pdf_path)),
          ops |-> <<<<"read", pdf_path>>>>]
    ELSE IF StartBeyondEnd(start, Len(fs[pdf_path]))
    THEN [dirs |-> Mkdir(ds, Parent(output_path)), files |-> fs,
          result |-> Raise("ValueError",
                           ExceedsMsg(pdf_path, start, end, Len(fs[pdf_path]))),
          ops |-> << <<"read", pdf_path>>, <<"mkdir", Parent(output_path)>> >>]
    ELSE [dirs |-> Mkdir(ds, Parent(output_path)),
          files |-> WriteFile(fs, output_path,
                              SelectedPages(fs[pdf_path], start, end)),
          result |-> Return(None),
          ops |-> << <<"read", pdf_path>>, <<"mkdir", Parent(output_path)>>,
                     <<"write", output_path,
                       SelectedPages(fs[pdf_path], start, end)>> >>]

\* The whole call on filesystem (ds, fs): the filesystem it leaves, the
\* outcome, and the filesystem operations it performed, in order.
extract_page_range(ds, fs, pdf_path, start, end, output_path) ==
    IF pdf_path \notin DOMAIN fs
    THEN [dirs |-> ds, files |-> fs,
          result |-> Raise("OSError", UnreadableMsg(pdf_path)),
          ops |-> <<<<"read", pdf_path>>>>]
    ELSE IF StartBeyondEnd(start, Len(fs[pdf_path]))
    THEN [dirs |-> ds, files |-> fs,
          result |-> Raise("ValueError",
                           ExceedsMsg(pdf_path, start, end, Len(fs[pdf_path]))),
          ops |-> <<<<"read", pdf_path>>>>]
    ELSE [dirs |-> Mkdir(ds, Parent(output_path)),
          files |-> WriteFile(fs, output_path,
                              SelectedPages(fs[pdf_path], start, end)),
          result |-> Return(None),
          ops |-> << <<"read", pdf_path>>, <<"mkdir", Parent(output_path)>>,
                     <<"write", output_path,
                       SelectedPages(fs[pdf_path], start, end)>> >>]

(***************************************************************************)
(* The destination of one source (lines 139-140 and 191-192)               *)
(***************************************************************************)
out_name(pdf_path, start, end) ==
    Stem(pdf_path) \o <<"_", "p", "a", "g", "e", "s", "_">> \o IntStr(start)
        \o <<"-">> \o IntStr(end) \o Suffix(pdf_path)

Dest(output_dir, pdf_path, start, end) ==
    Join(output_dir, out_name(pdf_path, start, end))

ExtractingLine(output_dir, pdf_path, start, end) ==
    <<"-> Extracting ">> \o Name(pdf_path) \o <<" [">> \o IntStr(start)
        \o <<"-">> \o IntStr(end) \o <<"] -> ">>
        \o PathStr(Dest(output_dir, pdf_path, start, end))

(***************************************************************************)
(* The environment the calls run in: two source directories, an output     *)
(* directory that may or may not exist yet, documents of 1 to 3 pages.     *)
(***************************************************************************)
DirD == << <<"d">> >>

DirE == << <<"e">> >>

DirO == << <<"o">> >>

DirOS == << <<"o">>, <<"s">> >>

NameA == <<"a", ".", "p", "d", "f">>

NameB == <<"b", ".", "p", "d", "f">>

NameM == <<"m", ".", "p", "d", "f">>

NameOut == <<"o", "u", "t", ".", "p", "d", "f">>

\* a source whose own name has the shape of an output name
NameX == <<"a", "_", "p", "a", "g", "e", "s", "_", "1", "-", "2",
           ".", "p", "d", "f">>

\* a document of n pages; a page is known by its document and its number
Doc(id, n) == [k \in 1..n |-> <<id, k>>]

SourceFiles ==
    (Join(DirD, NameA) :> Doc("d/a", 3)) @@ (Join(DirE, NameA) :> Doc("e/a", 2))
        @@ (Join(DirD, NameB) :> Doc("d/b", 1))
        @@ (Join(DirD, NameX) :> Doc("d/x", 3))

\* the filesystems a run may start from: the output directory missing, or
\* present and already holding a file under an output name
InitialFilesystems ==
    { [dirs |-> {DirD, DirE}, files |-> SourceFiles],
      [dirs |-> {DirD, DirE, DirO},
       files |-> SourceFiles @@ (Join(DirO, NameX) :> Doc("old", 1))] }

\* d/m.pdf does not exist
Sources == (DOMAIN SourceFiles) \cup {Join(DirD, NameM)}

Batches == UNION {[1..n -> Sources] : n \in 0..MaxBatch}

OutputDirs == {DirD, DirO, DirOS}

OutputPaths ==
    {Join(DirO, NameOut), Join(DirOS, NameOut), Join(DirO, NameX),
     Join(DirD, NameB)}

PageArgs == 0..MaxPage

RECURSIVE TextsOfLen(_)
TextsOfLen(n) ==
    IF n = 0 THEN {<<>>}
    ELSE {Append(t, c) : t \in TextsOfLen(n - 1), c \in Alphabet}

\* the range strings of the documented examples
ExampleRanges ==
    { <<"1", "0", "-", "2", "5">>,
      <<" ", "1", "0", " ", "-", " ", "2", "5", " ">>,
      <<"2", "5", "-", "1", "0">>,
      <<"a", "b", "c", "-", "5">>,
      <<"1", "0">>,
      <<"-", "5", "-", "1", "0">> }

RangeTexts == UNION {TextsOfLen(n) : n \in 0..MaxLen} \cup ExampleRanges

\* what the user may type into the range prompt
TypedRanges ==
    { <<>>, <<"1", "-", "2">>, <<" ", "2", " ", "-", " ", "9">>,
      <<"4", "-", "4">>, <<"2", "-", "1">>, <<"a", "-", "5">>, <<"1", "0">> }

(***************************************************************************)
(* State                                                                   *)
(***************************************************************************)
VARIABLES
    mode,         \* which entry point runs: "parse", "extract", "batch", "gui"
    pc,           \* where the run is
    range_str,    \* parse_range's argument / the text typed by the user
    pdf_path,     \* extract_page_range's source argument (direct call)
    output_path,  \* extract_page_range's destination argument (direct call)
    pdfs,         \* the sources of the batch
    start, end,   \* the page range
    output_dir,   \* the output directory
    i,            \* position of the loop over pdfs (1-based)
    dirs, files,  \* the filesystem
    dirs0, files0,\* the filesystem as it was when the run began
    result,       \* outcome of the entry point: pending, return or raise
    errors,       \* run_interactive's list of (file name, message)
    dialogs,      \* the dialogs shown so far, in order
    stdout,       \* the lines printed so far
    oplog         \* the filesystem operations performed so far, in order

vars == <<mode, pc, range_str, pdf_path, output_path, pdfs, start, end,
          output_dir, i, dirs, files, dirs0, files0, result, errors, dialogs,
          stdout, oplog>>

NoPath == <<>>

InitCommon ==
    /\ i = 1
    /\ result = Pending
    /\ errors = <<>>
    /\ dialogs = <<>>
    /\ stdout = <<>>
    /\ oplog = <<>>
    /\ \E f \in InitialFilesystems :
           /\ dirs = f.dirs /\ dirs0 = f.dirs
           /\ files = f.files /\ files0 = f.files
           \* parse_range does not look at the filesystem
           /\ mode = "parse" => DirO \notin f.dirs

InitParse ==
    /\ mode = "parse" /\ pc = "parse_range"
    /\ range_str \in RangeTexts
    /\ pdf_path = NoPath /\ output_path = NoPath /\ pdfs = <<>>
    /\ start = 0 /\ end = 0 /\ output_dir = NoPath

InitExtract ==
    /\ mode = "extract" /\ pc = "extract_page_range"
    /\ pdf_path \in Sources
    /\ output_path \in OutputPaths
    /\ start \in PageArgs /\ end \in PageArgs
    /\ range_str = <<>> /\ pdfs = <<>> /\ output_dir = NoPath

InitBatch ==
    /\ mode = "batch" /\ pc = "process_many"
    /\ pdfs \in Batches
    /\ start \in PageArgs /\ end \in PageArgs
    /\ output_dir \in OutputDirs
    /\ range_str = <<>> /\ pdf_path = NoPath /\ output_path = NoPath

\* run_interactive takes no argument: everything is asked for
InitGui ==
    /\ mode = "gui" /\ pc = "ask_files"
    /\ range_str = <<>> /\ pdfs = <<>> /\ output_dir = NoPath
    /\ start = 0 /\ end = 0
    /\ pdf_path = NoPath /\ output_path = NoPath

Init == (InitParse \/ InitExtract \/ InitBatch \/ InitGui) /\ InitCommon

(***************************************************************************)
(* Direct calls of parse_range and extract_page_range                      *)
(***************************************************************************)
ParseCall ==
    /\ mode = "parse" /\ pc = "parse_range"
    /\ result' = parse_range(range_str)
    /\ pc' = "done"
    /\ UNCHANGED <<mode, range_str, pdf_path, output_path, pdfs, start, end,
                   output_dir, i, dirs, files, dirs0, files0, errors, dialogs,
                   stdout, oplog>>

ExtractCall ==
    /\ mode = "extract" /\ pc = "extract_page_range"
    /\ LET r == extract_page_range(dirs, files, pdf_path, start, end, output_path)
       IN  /\ dirs' = r.dirs
           /\ files' = r.files
           /\ result' = r.result
           /\ oplog' = oplog \o r.ops
    /\ pc' = "done"
    /\ UNCHANGED <<mode, range_str, pdf_path, output_path, pdfs, start, end,
                   output_dir, i, dirs0, files0, errors, dialogs, stdout>>

(***************************************************************************)
(* process_many                                                            *)
(***************************************************************************)
\* line 134
ProcessManyMkdir ==
    /\ mode = "batch" /\ pc = "process_many"
    /\ dirs' = Mkdir(dirs, output_dir)
    /\ oplog' = Append(oplog, <<"mkdir", output_dir>>)
    /\ pc' = "loop"
    /\ UNCHANGED <<mode, range_str, pdf_path, output_path, pdfs, start, end,
                   output_dir, i, files, dirs0, files0, result, errors,
                   dialogs, stdout>>

\* a loop that skips a failed source and goes on
ProcessManyAfterSkipping(r) == [pc |-> "loop", i |-> i + 1, result |-> result]

\* a loop that notes the failure and goes on with the next source
ProcessManyAfterDeferring(r) ==
    [pc |-> "loop", i |-> i + 1,
     result |-> IF r.kind = "raise" THEN r ELSE result]

\* what process_many does when extract_page_range ended with outcome r:
\* an exception leaves the loop and the function
ProcessManyAfter(r) ==
    IF r.kind = "raise"
    THEN [pc |-> "done", i |-> i, result |-> r]
    ELSE [pc |-> "loop", i |-> i + 1, result |-> result]

\* lines 136-142, one source
ProcessManyStep ==
    /\ mode = "batch" /\ pc = "loop" /\ i <= Len(pdfs)
    /\ stdout' = Append(stdout, ExtractingLine(output_dir, pdfs[i], start, end))
    /\ LET r == extract_page_range(dirs, files, pdfs[i], start, end,
                                   Dest(output_dir, pdfs[i], start, end))
           n == ProcessManyAfter(r.result)
       IN  /\ dirs' = r.dirs
           /\ files' = r.files
           /\ oplog' = oplog \o r.ops
           /\ pc' = n.pc
           /\ i' = n.i
           /\ result' = n.result
    /\ UNCHANGED <<mode, range_str, pdf_path, output_path, pdfs, start, end,
                   output_dir, dirs0, files0, errors, dialogs>>

\* the value process_many returns (the function has no return statement)
ProcessManyValue == None

\* line 144 and the end of the function
ProcessManyReturn ==
    /\ mode = "batch" /\ pc = "loop" /\ i > Len(pdfs)
    /\ stdout' = Append(stdout, <<"Done.">>)
    /\ result' = Return(ProcessManyValue)
    /\ pc' = "done"
    /\ UNCHANGED <<mode, range_str, pdf_path, output_path, pdfs, start, end,
                   output_dir, i, dirs, files, dirs0, files0, errors, dialogs,
                   oplog>>

(***************************************************************************)
(* run_interactive                                                         *)
(***************************************************************************)
Dialog(fn, title, text) == [fn |-> fn, title |-> title, text |-> text]

\* lines 202-203: the text of the closing warning
RECURSIVE ErrorLines(_)
ErrorLines(errs) ==
    IF errs = <<>> THEN <<>>
    ELSE <<"- ">> \o errs[1][1] \o <<": ">> \o errs[1][2]
             \o (IF Len(errs) > 1 THEN <<"\n">> ELSE <<>>)
             \o ErrorLines(Tail(errs))

\* lines 201-205: the closing dialog
ClosingDialog(errs, dir) ==
    IF errs # <<>>
    THEN Dialog("showwarning", "Finished with errors",
                <<"Some files failed:\n\n">> \o ErrorLines(errs))
    ELSE Dialog("showinfo", "Success",
                <<"Finished! Files saved to:\n">> \o PathStr(dir))

\* lines 159-161, 166-168, 175-177: what a cancelled step shows and prints
CancelDialogs(line) == <<>>

\* a cancelled step that prints nothing
CancelSilent(line) == <<>>

CancelOutput(line) == <<line>>

GuiFrame == <<mode, pdf_path, output_path, i, dirs, files, dirs0, files0,
              errors, oplog>>

\* lines 156-162
AskFiles ==
    /\ mode = "gui" /\ pc = "ask_files"
    /\ \E file_paths \in Batches :
           LET asked == Append(dialogs,
                   Dialog("askopenfilenames", "Select one or more PDF files", <<>>))
           IN  IF file_paths = <<>>
               THEN /\ dialogs' = asked \o CancelDialogs(<<"No files selected. Exiting.">>)
                    /\ stdout' = stdout \o CancelOutput(<<"No files selected. Exiting.">>)
                    /\ result' = Return(None)
                    /\ pc' = "done"
                    /\ pdfs' = pdfs
               ELSE /\ dialogs' = asked
                    /\ pdfs' = file_paths
                    /\ pc' = "ask_dir"
                    /\ UNCHANGED <<stdout, result>>
    /\ UNCHANGED <<range_str, start, end, output_dir>>
    /\ UNCHANGED GuiFrame

\* lines 165-169
AskDirectory ==
    /\ mode = "gui" /\ pc = "ask_dir"
    /\ \E out_dir \in OutputDirs \cup {NoPath} :
           LET asked == Append(dialogs,
                   Dialog("askdirectory", "Select output directory", <<>>))
           IN  IF out_dir = NoPath
               THEN /\ dialogs' = asked
                          \o CancelDialogs(<<"No output directory selected. Exiting.">>)
                    /\ stdout' = stdout
                          \o CancelOutput(<<"No output directory selected. Exiting.">>)
                    /\ result' = Return(None)
                    /\ pc' = "done"
                    /\ output_dir' = output_dir
               ELSE /\ dialogs' = asked
                    /\ output_dir' = out_dir
                    /\ pc' = "ask_range"
                    /\ UNCHANGED <<stdout, result>>
    /\ UNCHANGED <<range_str, pdfs, start, end>>
    /\ UNCHANGED GuiFrame

\* lines 172-177: the prompt returns None when cancelled, the typed text
\* otherwise; an empty text counts as no range
AskRange ==
    /\ mode = "gui" /\ pc = "ask_range"
    /\ LET asked == Append(dialogs,
               Dialog("askstring", "Page range", <<"Enter page range (e.g. 10-25):">>))
           cancel ==
               /\ dialogs' = asked \o CancelDialogs(<<"No range provided. Exiting.">>)
               /\ stdout' = stdout \o CancelOutput(<<"No range provided. Exiting.">>)
               /\ result' = Return(None)
               /\ pc' = "done"
               /\ range_str' = range_str
       IN  \/ cancel
           \/ \E typed \in TypedRanges :
                  IF typed = <<>>
                  THEN cancel
                  ELSE /\ dialogs' = asked
                       /\ range_str' = typed
                       /\ pc' = "parse"
                       /\ UNCHANGED <<stdout, result>>
    /\ UNCHANGED <<pdfs, start, end, output_dir>>
    /\ UNCHANGED GuiFrame

\* lines 179-188
ParseTyped ==
    /\ mode = "gui" /\ pc = "parse"
    /\ LET r == parse_range(range_str)
       IN  IF r.kind = "raise"
           THEN /\ dialogs' = Append(dialogs, Dialog("showerror", "Input error", r.msg))
                /\ result' = Return(None)
                /\ pc' = "done"
                /\ UNCHANGED <<start, end>>
           ELSE /\ start' = r.value[1]
                /\ end' = r.value[2]
                /\ pc' = "loop"
                /\ UNCHANGED <<dialogs, result>>
    /\ UNCHANGED <<mode, range_str, pdf_path, output_path, pdfs, output_dir, i,
                   dirs, files, dirs0, files0, errors, stdout, oplog>>

\* a list that keeps the latest failure only
ErrorsAfterKeepingLast(errs, pdf, r) ==
    IF r.kind = "raise" THEN <<<<Name(pdf), r.msg>>>> ELSE errs

\* lines 195-197: what the loop does with the outcome r of one extraction
ErrorsAfter(errs, pdf, r) ==
    IF r.kind = "raise" THEN Append(errs, <<Name(pdf), r.msg>>) ELSE errs

FailedLine(pdf, r) == <<"x Failed for ">> \o Name(pdf) \o <<": ">> \o r.msg

\* lines 189-197, one source
GuiStep ==
    /\ mode = "gui" /\ pc = "loop" /\ i <= Len(pdfs)
    /\ LET r == extract_page_range(dirs, files, pdfs[i], start, end,
                                   Dest(output_dir, pdfs[i], start, end))
           line == ExtractingLine(output_dir, pdfs[i], start, end)
       IN  /\ dirs' = r.dirs
           /\ files' = r.files
           /\ oplog' = oplog \o r.ops
           /\ errors' = ErrorsAfter(errors, pdfs[i], r.result)
           /\ stdout' = IF r.result.kind = "raise"
                        THEN stdout \o <<line, FailedLine(pdfs[i], r.result)>>
                        ELSE Append(stdout, line)
    /\ i' = i + 1
    /\ UNCHANGED <<mode, pc, range_str, pdf_path, output_path, pdfs, start, end,
                   output_dir, dirs0, files0, result, dialogs>>

\* lines 201-206
GuiSummary ==
    /\ mode = "gui" /\ pc = "loop" /\ i > Len(pdfs)
    /\ dialogs' = Append(dialogs, ClosingDialog(errors, output_dir))
    /\ stdout' = IF errors = <<>> THEN Append(stdout, <<"Done.">>) ELSE stdout
    /\ result' = Return(None)
    /\ pc' = "done"
    /\ UNCHANGED <<mode, range_str, pdf_path, output_path, pdfs, start, end,
                   output_dir, i, dirs, files, dirs0, files0, errors, oplog>>

Next ==
    \/ ParseCall
    \/ ExtractCall
    \/ ProcessManyMkdir
    \/ ProcessManyStep
    \/ ProcessManyReturn
    \/ AskFiles
    \/ AskDirectory
    \/ AskRange
    \/ ParseTyped
    \/ GuiStep
    \/ GuiSummary

Spec == Init /\ [][Next]_vars

(***************************************************************************)
(* Reading the log of filesystem operations                                *)
(***************************************************************************)
OpsOf(log, kind) == SelectSeq(log, LAMBDA op : op[1] = kind)

PathsOf(ops) == [k \in 1..Len(ops) |-> ops[k][2]]

ReadPaths == PathsOf(OpsOf(oplog, "read"))

WrittenPaths == PathsOf(OpsOf(oplog, "write"))

\* the destinations of the first n sources of the batch
Dests(n) == [k \in 1..n |-> Dest(output_dir, pdfs[k], start, end)]

\* every directory on the way to dir, dir included
Ancestors(dir) == {SubSeq(dir, 1, k) : k \in 1..Len(dir)}

(***************************************************************************)
(* C1.  For a source of n pages and 1 <= start <= end, start <= n, a call  *)
(* of extract_page_range returns normally and the document at the          *)
(* destination is exactly the source pages start .. min(end, n) in order,  *)
(* at least one page; an end beyond n is clamped, never an error.          *)
(***************************************************************************)
C1_ExtractWritesRange ==
    (/\ mode = "extract" /\ pc = "done"
     /\ pdf_path \in DOMAIN files0
     /\ 1 <= start /\ start <= end /\ start <= Len(files0[pdf_path]))
    => LET src == files0[pdf_path]
           last == IF end < Len(src) THEN end ELSE Len(src)
       IN  /\ result.kind = "return"
           /\ output_path \in DOMAIN files
           /\ files[output_path] = [k \in 1..(last - start + 1) |-> src[start + k - 1]]
           /\ Len(files[output_path]) = last - start + 1
           /\ Len(files[output_path]) >= 1

\* pages 2,3 of a 3-page source were written for the range (2, 4)
C1_Witness ==
    /\ mode = "extract" /\ pc = "done"
    /\ start = 2 /\ end = 4
    /\ pdf_path = Join(DirD, NameA)
    /\ result.kind = "return"
    /\ files[output_path] = << <<"d/a", 2>>, <<"d/a", 3>> >>

(***************************************************************************)
(* C2.  parse_range returns (start, end) exactly when the text has one     *)
(* hyphen and the texts on its two sides are integers once stripped, with  *)
(* start >= 1, end >= 1, start <= end, and the pair is those integers;     *)
(* otherwise it raises the one invalid-range error, whose message holds    *)
(* the text it was given.                                                  *)
(***************************************************************************)
HyphenCount(s) == Cardinality({k \in 1..Len(s) : s[k] = "-"})

HyphenAt(s) == CHOOSE k \in 1..Len(s) : s[k] = "-"

Before(s) == SubSeq(s, 1, HyphenAt(s) - 1)

After(s) == SubSeq(s, HyphenAt(s) + 1, Len(s))

WellFormedRange(s) ==
    /\ HyphenCount(s) = 1
    /\ IntOk(Before(s)) /\ IntOk(After(s))
    /\ IntOf(Before(s)) >= 1 /\ IntOf(After(s)) >= 1
    /\ IntOf(Before(s)) <= IntOf(After(s))

C2_ParseRangeContract ==
    (mode = "parse" /\ pc = "done")
    => IF WellFormedRange(range_str)
       THEN /\ result.kind = "return"
            /\ result.value = <<IntOf(Before(range_str)), IntOf(After(range_str))>>
       ELSE /\ result.kind = "raise"
            /\ result.exc = "ValueError"
            /\ Contains(result.msg, range_str)
            /\ result.msg = InvalidRangeMsg(range_str)

\* " 10 - 25 " was parsed to (10, 25)
C2_Witness ==
    /\ mode = "parse" /\ pc = "done"
    /\ range_str = <<" ", "1", "0", " ", "-", " ", "2", "5", " ">>
    /\ result.kind = "return"
    /\ result.value = <<10, 25>>

(***************************************************************************)
(* C3.  When start is beyond the source's page count, extract_page_range   *)
(* raises the out-of-bounds error, whose message names the document and    *)
(* its page count, and the filesystem is left as it was: no directory      *)
(* made, no file created or overwritten.                                   *)
(***************************************************************************)
C3_OutOfBoundsTouchesNothing ==
    (/\ mode = "extract" /\ pc = "done"
     /\ pdf_path \in DOMAIN files0
     /\ start > Len(files0[pdf_path]))
    => /\ result.kind = "raise"
       /\ result.exc = "ValueError"
       /\ Contains(result.msg, <<" exceeds PDF '">> \o Name(pdf_path) \o <<"' (">>)
       /\ Contains(result.msg, IntStr(Len(files0[pdf_path])) \o <<" pages).">>)
       /\ dirs = dirs0
       /\ files = files0
       /\ OpsOf(oplog, "mkdir") = <<>>
       /\ OpsOf(oplog, "write") = <<>>

\* start 4 on a 3-page source, destination directory o/s absent before and after
C3_Witness ==
    /\ mode = "extract" /\ pc = "done"
    /\ start = 4 /\ pdf_path = Join(DirD, NameA)
    /\ output_path = Join(DirOS, NameOut)
    /\ result.kind = "raise"
    /\ DirO \notin dirs0 /\ DirO \notin dirs /\ DirOS \notin dirs

(***************************************************************************)
(* C4.  After process_many returns normally, for every source of the batch *)
(* the file <output_dir>/<stem>_pages_<start>-<end><suffix> exists, named  *)
(* with the requested start and end, and holds the pages that were         *)
(* extracted from that source, also when two sources share a file name.    *)
(***************************************************************************)
\* the pages the k-th extraction of a completed batch handed to the writer
PagesWritten(k) == OpsOf(oplog, "write")[k][3]

C4_EverySourceHasItsOutput ==
    (/\ mode = "batch" /\ pc = "done" /\ result.kind = "return"
     /\ 1 <= start /\ start <= end)
    => \A k \in 1..Len(pdfs) :
           /\ Dests(Len(pdfs))[k] \in DOMAIN files
           /\ files[Dests(Len(pdfs))[k]] = PagesWritten(k)

(***************************************************************************)
(* C5.  process_many returns the list of the output paths it wrote, one    *)
(* per source, in the order of the input sources.                          *)
(***************************************************************************)
C5_ReturnsWrittenPaths ==
    (mode = "batch" /\ pc = "done" /\ result.kind = "return")
    => /\ result.value # None
       /\ result.value = Dests(Len(pdfs))

\* C5 as amended: process_many returns None; the paths it wrote are one per
\* source, in the order of the input sources, and are only to be seen on
\* disk and in the lines it printed.
C5_ReturnsNoneWritesInOrder ==
    (mode = "batch" /\ pc = "done" /\ result.kind = "return")
    => /\ result.value = None
       /\ WrittenPaths = Dests(Len(pdfs))
       /\ Len(stdout) = Len(pdfs) + 1
       /\ \A k \in 1..Len(pdfs) :
              Contains(stdout[k], PathStr(Dests(Len(pdfs))[k]))

\* a batch of two sources returned
C5_Witness ==
    /\ mode = "batch" /\ pc = "done" /\ result.kind = "return"
    /\ pdfs = <<Join(DirD, NameA), Join(DirD, NameB)>>
    /\ start = 1 /\ end = 2 /\ output_dir = DirO
    /\ WrittenPaths = <<Join(DirO, out_name(pdfs[1], 1, 2)),
                        Join(DirO, out_name(pdfs[2], 1, 2))>>

(***************************************************************************)
(* C6.  process_many handles the sources strictly in input order and       *)
(* stops at the first failure: the error of the failing source reaches the *)
(* caller, the outputs of the sources before it are written and on disk,   *)
(* and no source after it is opened or written.                            *)
(***************************************************************************)
C6_InOrderStopAtFirstFailure ==
    mode = "batch"
    => LET failed == result.kind = "raise"
           opened == IF failed THEN i ELSE i - 1
       IN  /\ failed => pc = "done"
           /\ opened <= Len(pdfs)
           /\ ReadPaths = SubSeq(pdfs, 1, opened)
           /\ WrittenPaths = Dests(i - 1)
           /\ \A k \in 1..(i - 1) : Dests(i - 1)[k] \in DOMAIN files
           /\ failed =>
                  result = extract_page_range(dirs, files, pdfs[i], start, end,
                               Dest(output_dir, pdfs[i], start, end)).result

\* the second of three sources failed: one output on disk, the third untouched
C6_Witness ==
    /\ mode = "batch" /\ pc = "done" /\ result.kind = "raise"
    /\ pdfs = <<Join(DirD, NameA), Join(DirD, NameM), Join(DirD, NameB)>>
    /\ start = 1 /\ end = 1 /\ output_dir = DirO
    /\ i = 2
    /\ Dest(output_dir, pdfs[1], start, end) \in DOMAIN files
    /\ Dest(output_dir, pdfs[3], start, end) \notin DOMAIN files
    /\ ReadPaths = <<pdfs[1], pdfs[2]>>

(***************************************************************************)
(* C7.  In the interactive flow, once a valid range is entered, every      *)
(* selected source is attempted exactly once, in selection order, whatever *)
(* failed before; at the end each source has its output written or has     *)
(* exactly one entry (file name, message) in the error list; exactly one   *)
(* closing dialog is shown: the failure summary listing every collected    *)
(* error when the list is not empty, the success dialog exactly when it is.*)
(***************************************************************************)
ReadIndexes == {j \in 1..Len(oplog) : oplog[j][1] = "read"}

\* where in the log the k-th source was opened
ReadIndex(k) ==
    CHOOSE j \in ReadIndexes : Cardinality({m \in ReadIndexes : m <= j}) = k

\* the k-th attempt went on to write its destination
Wrote(k) ==
    /\ ReadIndex(k) + 2 <= Len(oplog)
    /\ oplog[ReadIndex(k) + 2][1] = "write"
    /\ oplog[ReadIndex(k) + 2][2] = Dest(output_dir, pdfs[k], start, end)

FailedUpTo(k) == {m \in 1..k : ~Wrote(m)}

ClosingFns == {"showwarning", "showinfo", "showerror"}

RangeAccepted == range_str # <<>> /\ parse_range(range_str).kind = "return"

C7_InteractiveCollectsErrors ==
    (mode = "gui" /\ pc = "done" /\ output_dir # NoPath /\ RangeAccepted)
    => /\ ReadPaths = pdfs
       /\ Cardinality(ReadIndexes) = Len(pdfs)
       /\ Len(errors) = Cardinality(FailedUpTo(Len(pdfs)))
       /\ \A k \in 1..Len(pdfs) :
              IF Wrote(k)
              THEN Dest(output_dir, pdfs[k], start, end) \in DOMAIN files
              ELSE /\ errors[Cardinality(FailedUpTo(k))][1] = Name(pdfs[k])
                   /\ Len(errors[Cardinality(FailedUpTo(k))][2]) > 0
       /\ Len(dialogs) = 4
       /\ \A d \in 1..3 : dialogs[d].fn \notin ClosingFns
       /\ dialogs[4].fn = "showwarning" <=> errors # <<>>
       /\ dialogs[4].fn = "showinfo" <=> errors = <<>>
       /\ \A e \in 1..Len(errors) :
              Contains(dialogs[4].text,
                       <<"- ">> \o errors[e][1] \o <<": ">> \o errors[e][2])

\* three sources, the first and the third failed, the second was written
C7_Witness ==
    /\ mode = "gui" /\ pc = "done"
    /\ pdfs = <<Join(DirD, NameM), Join(DirD, NameB), Join(DirD, NameM)>>
    /\ range_str = <<"1", "-", "2">> /\ output_dir = DirO
    /\ Len(errors) = 2
    /\ Join(DirO, out_name(pdfs[2], 1, 2)) \in DOMAIN files
    /\ dialogs[Len(dialogs)].fn = "showwarning"

(***************************************************************************)
(* C8.  Extraction never changes a source document: after a batch run      *)
(* (process_many or the interactive loop) every source of the batch has    *)
(* the content it had before, also when the output directory holds the     *)
(* sources and one source is named like the output of another.             *)
(***************************************************************************)
C8_SourcesUnchanged ==
    (/\ mode \in {"batch", "gui"} /\ pc = "done" /\ result.kind = "return"
     /\ 1 <= start /\ start <= end)
    => \A k \in 1..Len(pdfs) :
           pdfs[k] \in DOMAIN files0
               => pdfs[k] \in DOMAIN files /\ files[pdfs[k]] = files0[pdfs[k]]

(***************************************************************************)
(* C9.  The output directory is created when missing: once process_many    *)
(* has been called the output directory and its missing parents exist,     *)
(* also for an empty batch and when the first extraction fails; after an   *)
(* interactive run in which an extraction succeeded the chosen output      *)
(* directory exists.                                                       *)
(***************************************************************************)
C9_OutputDirCreated ==
    /\ (mode = "batch" /\ pc = "done") => Ancestors(output_dir) \subseteq dirs
    /\ (mode = "gui" /\ pc = "done" /\ WrittenPaths # <<>>)
           => Ancestors(output_dir) \subseteq dirs

\* o/s and its parent o were missing; the only source failed; both exist
C9_Witness ==
    /\ mode = "batch" /\ pc = "done" /\ result.kind = "raise"
    /\ pdfs = <<Join(DirD, NameM)>>
    /\ output_dir = DirOS
    /\ DirO \notin dirs0 /\ DirOS \notin dirs0
    /\ DirO \in dirs /\ DirOS \in dirs

(***************************************************************************)
(* C10.  The interactive flow asks for sources, destination directory and  *)
(* range in that order; when a step is cancelled or the range is rejected  *)
(* the flow ends there, asks nothing more, extracts nothing, writes no     *)
(* file, and reports the outcome in a modal dialog.                        *)
(***************************************************************************)
PromptFns == <<"askopenfilenames", "askdirectory", "askstring">>

EndedEarly ==
    mode = "gui" /\ pc = "done" /\ ~(output_dir # NoPath /\ RangeAccepted)

\* how many prompts a run that ended early has shown
PromptsShown ==
    IF pdfs = <<>> THEN 1 ELSE IF output_dir = NoPath THEN 2 ELSE 3

NothingExtracted == oplog = <<>> /\ files = files0 /\ dirs = dirs0

C10_EarlyExitReportedInDialog ==
    EndedEarly
    => /\ \A d \in 1..PromptsShown : dialogs[d].fn = PromptFns[d]
       /\ NothingExtracted
       /\ Len(dialogs) = PromptsShown + 1
       /\ dialogs[Len(dialogs)].fn \in ClosingFns

\* C10 as amended: a cancelled step is reported by a printed line only, no
\* dialog; a rejected range is reported by the "Input error" dialog holding
\* parse_range's message.  The rest of the claim stands.
C10_EarlyExitCancelPrintsOnly ==
    /\ mode = "gui" =>
           \A d \in 1..Len(dialogs) : d <= 3 => dialogs[d].fn = PromptFns[d]
    /\ EndedEarly
       => /\ NothingExtracted
          /\ \A d \in 1..PromptsShown : dialogs[d].fn = PromptFns[d]
          /\ IF PromptsShown = 3 /\ range_str # <<>>
             THEN /\ dialogs = SubSeq(dialogs, 1, 3)
                       \o <<Dialog("showerror", "Input error",
                                   parse_range(range_str).msg)>>
                  /\ Contains(dialogs[4].text, range_str)
                  /\ stdout = <<>>
             ELSE /\ Len(dialogs) = PromptsShown
                  /\ Len(stdout) = 1

\* the directory prompt was cancelled: two prompts, one printed line
C10_Witness ==
    /\ mode = "gui" /\ pc = "done"
    /\ pdfs # <<>> /\ output_dir = NoPath
    /\ Len(dialogs) = 2
    /\ stdout = << <<"No output directory selected. Exiting.">> >>

=============================================================================
